---- MODULE Spec2Model ----
(***************************************************************************)
(* Model of Implementation.Dlantb (lapack/gonum/dlantb.go): the norm of an *)
(* n x n triangular band matrix with k+1 diagonals, stored row-major with  *)
(* row stride lda.                                                         *)
(*                                                                         *)
(* A call is one behaviour: Init is the state at call entry (arguments and *)
(* the caller's two slices), and each action is one path through the       *)
(* function body, from entry to the return or the panic that ends it.      *)
(***************************************************************************)
EXTENDS Integers, Sequences, FiniteSets

VARIABLES norm, uplo, diag, n, k, a, lda, work,
          pc, value, err, reads, writes

vars == <<norm, uplo, diag, n, k, a, lda, work, pc, value, err, reads, writes>>

args == <<norm, uplo, diag, n, k, a, lda>>

(***************************************************************************)
(* Bounds of the model.                                                    *)
(***************************************************************************)
MaxN == 3          \* largest matrix order tried
MaxK == 2          \* largest number of off-diagonals tried
MaxSpecial == 2    \* band entries that differ from 0 in a sparse band

(***************************************************************************)
(* float64, restricted to what the routine can produce from small integer  *)
(* entries: exact rationals num/den (den > 0, lowest terms) and NaN.       *)
(* Infinities never arise: entries are finite and every division in the    *)
(* code has a non-zero divisor unless its numerator is NaN.                *)
(***************************************************************************)
min(x, y) == IF x < y THEN x ELSE y

max(x, y) == IF x > y THEN x ELSE y

IAbs(x) == IF x < 0 THEN -x ELSE x

RECURSIVE GCD(_, _)
GCD(x, y) == IF y = 0 THEN x ELSE GCD(y, x % y)

NaN == [nan |-> TRUE, num |-> 0, den |-> 1]

Rat(p, q) ==
    LET g == GCD(IAbs(p), q)
    IN  [nan |-> FALSE, num |-> p \div g, den |-> q \div g]

F(x) == [nan |-> FALSE, num |-> x, den |-> 1]

IsNaN(x) == x.nan

Abs(x) == IF x.nan THEN NaN ELSE [x EXCEPT !.num = IAbs(x.num)]

Add(x, y) ==
    IF x.nan \/ y.nan THEN NaN
    ELSE Rat(x.num * y.den + y.num * x.den, x.den * y.den)

Mul(x, y) ==
    IF x.nan \/ y.nan THEN NaN
    ELSE Rat(x.num * y.num, x.den * y.den)

\* x / y; y = 0 is reached only with a NaN numerator or as 0/0, both NaN.
Div(x, y) ==
    IF x.nan \/ y.nan \/ y.num = 0 THEN NaN
    ELSE IF y.num > 0 THEN Rat(x.num * y.den, x.den * y.num)
    ELSE Rat(-(x.num * y.den), x.den * (-y.num))

\* x > y and x < y are false when either side is NaN.
Gt(x, y) == ~x.nan /\ ~y.nan /\ x.num * y.den > y.num * x.den

Lt(x, y) == Gt(y, x)

Ge(x, y) == ~x.nan /\ ~y.nan /\ x.num * y.den >= y.num * x.den

\* scale * math.Sqrt(ssq), kept exactly as the square root of scale^2 * ssq.
MulSqrt(scale, ssq) == [sqrtOf |-> Mul(Mul(scale, scale), ssq)]

\* a[idx] of the 0-based Go slice a.
At(s, idx) == s[idx + 1]

InRange(s, idx) == idx >= 0 /\ idx < Len(s)

(***************************************************************************)
(* Argument values.  The norm kinds, orientations and diagonal conventions *)
(* are the constants of packages lapack and blas; "Other" stands for any   *)
(* value that is none of them.  The panic messages carry the names of the  *)
(* package's message constants.                                            *)
(***************************************************************************)
MaxAbs == "MaxAbs"

MaxRowSum == "MaxRowSum"

MaxColumnSum == "MaxColumnSum"

Frobenius == "Frobenius"

Upper == "Upper"

Lower == "Lower"

Unit == "Unit"

NonUnit == "NonUnit"

Other == "Other"

NoPanic == "none"

\* Raised by the Go runtime on an out-of-range index or slice expression.
IndexOutOfRange == "index out of range"

(***************************************************************************)
(* The argument checks at entry, in the order of the first switch.         *)
(***************************************************************************)
ArgPanicReorderedMut(nrm, upl, nn, kk, ld) ==
    IF ld < kk + 1 THEN "badLdA"
    ELSE IF kk < 0 THEN "kdLT0"
    ELSE IF nn < 0 THEN "nLT0"
    ELSE IF upl # Upper /\ upl # Lower THEN "badUplo"
    ELSE IF nrm # MaxAbs /\ nrm # MaxRowSum /\ nrm # MaxColumnSum /\ nrm # Frobenius
         THEN "badNorm"
    ELSE NoPanic

ArgPanic(nrm, upl, nn, kk, ld) ==
    IF nrm # MaxAbs /\ nrm # MaxRowSum /\ nrm # MaxColumnSum /\ nrm # Frobenius
         THEN "badNorm"
    ELSE IF upl # Upper /\ upl # Lower THEN "badUplo"
    ELSE IF nn < 0 THEN "nLT0"
    ELSE IF kk < 0 THEN "kdLT0"
    ELSE IF ld < kk + 1 THEN "badLdA"
    ELSE NoPanic

\* if n == 0 { return 0 }
QuickReturnNeverMut(nn) == FALSE

IsQuickReturn(nn) == nn = 0

(***************************************************************************)
(* The length checks after the quick return, in the order of the second    *)
(* switch.                                                                 *)
(***************************************************************************)
LenPanic(nrm, nn, kk, aa, ld, wk) ==
    IF Len(aa) < (nn - 1) * ld + kk + 1 THEN "shortAB"
    ELSE IF Len(wk) < nn /\ nrm = MaxColumnSum THEN "shortWork"
    ELSE NoPanic

(***************************************************************************)
(* Loop ranges.  JSeq(lo, hi) is the values of j in                        *)
(*     for j := lo; j < hi; j++                                            *)
(* UpperEnd and LowerStart are the bounds that trim a row of the band at   *)
(* the matrix boundary.                                                    *)
(***************************************************************************)
JSeq(lo, hi) == [x \in 1..(IF hi > lo THEN hi - lo ELSE 0) |-> lo + x - 1]

UpperEndUntrimmedMut(nn, kk, i) == kk + 1

UpperEnd(nn, kk, i) == min(nn - i, kk + 1)

LowerStart(kk, i) == max(0, kk - i)

RECURSIVE Flatten(_)
Flatten(rows) == IF rows = <<>> THEN <<>> ELSE Head(rows) \o Flatten(Tail(rows))

\* The <<i, j>> visited by  for i := 0; i < n; i++ { for j in Row(i) }.
RowMajor(nn, rowJ) ==
    Flatten([r \in 1..nn |-> [x \in DOMAIN rowJ[r] |-> <<r - 1, rowJ[r][x]>>]])

\* The j of row i in the MaxAbs and the MaxRowSum branches.
ScanRowJ(upl, dg, nn, kk, i) ==
    IF dg = Unit
    THEN IF upl = Upper THEN JSeq(1, UpperEnd(nn, kk, i))
         ELSE JSeq(LowerStart(kk, i), kk)
    ELSE IF upl = Upper THEN JSeq(0, UpperEnd(nn, kk, i))
         ELSE JSeq(LowerStart(kk, i), kk + 1)

\* The j of row i in the MaxColumnSum branch.
ColumnRowJ(upl, dg, nn, kk, i) ==
    IF upl = Upper
    THEN IF dg = Unit THEN JSeq(1, UpperEnd(nn, kk, i))
         ELSE JSeq(0, UpperEnd(nn, kk, i))
    ELSE IF dg = Unit THEN JSeq(LowerStart(kk, i), kk + 1)
         ELSE JSeq(LowerStart(kk, i), kk + 1)

(***************************************************************************)
(* Element accesses.  A cell <<i, j>> is slot j of band row i, read as     *)
(* a[i*lda+j].  An index outside the slice makes the Go runtime panic at   *)
(* that access: Attempted is the accesses made up to and including the     *)
(* first such one.                                                         *)
(***************************************************************************)
Idx(c, ld) == c[1] * ld + c[2]

Faulted(aa, ld, cells) == \E x \in DOMAIN cells : ~InRange(aa, Idx(cells[x], ld))

RECURSIVE Attempted(_, _, _)
Attempted(aa, ld, cells) ==
    IF cells = <<>> THEN <<>>
    ELSE IF ~InRange(aa, Idx(Head(cells), ld)) THEN <<Head(cells)>>
    ELSE <<Head(cells)>> \o Attempted(aa, ld, Tail(cells))

CellSet(cells) == {cells[x] : x \in DOMAIN cells}

(***************************************************************************)
(* lapack.MaxAbs                                                           *)
(***************************************************************************)
MaxAbsCells(upl, dg, nn, kk) ==
    RowMajor(nn, [r \in 1..nn |-> ScanRowJ(upl, dg, nn, kk, r - 1)])

\* The update without the NaN test: a NaN entry is never taken.
TakeLargerDropNaNMut(v, x) == IF Gt(x, v) THEN x ELSE v

\* if x > v || math.IsNaN(x) { v = x }
TakeLarger(v, x) == IF Gt(x, v) \/ IsNaN(x) THEN x ELSE v

RECURSIVE MaxAbsFold(_, _, _, _)
MaxAbsFold(v, aa, ld, cells) ==
    IF cells = <<>> THEN v
    ELSE MaxAbsFold(TakeLarger(v, Abs(At(aa, Idx(Head(cells), ld)))),
                    aa, ld, Tail(cells))

MaxAbsValue(upl, dg, nn, kk, aa, ld) ==
    MaxAbsFold(IF dg = Unit THEN F(1) ELSE F(0), aa, ld,
               MaxAbsCells(upl, dg, nn, kk))

(***************************************************************************)
(* lapack.MaxRowSum                                                        *)
(***************************************************************************)
MaxRowSumCells(upl, dg, nn, kk) ==
    RowMajor(nn, [r \in 1..nn |-> ScanRowJ(upl, dg, nn, kk, r - 1)])

RECURSIVE SumFold(_, _, _, _, _)
SumFold(sum, aa, ld, i, js) ==
    IF js = <<>> THEN sum
    ELSE SumFold(Add(sum, Abs(At(aa, i * ld + Head(js)))), aa, ld, i, Tail(js))

\* The row sum with the diagonal slot read under the unit convention too.
RowSumReadsDiagMut(upl, dg, nn, kk, aa, ld, i) ==
    SumFold(IF dg = Unit THEN F(1) ELSE F(0), aa, ld, i,
            ScanRowJ(upl, NonUnit, nn, kk, i))

RowSum(upl, dg, nn, kk, aa, ld, i) ==
    SumFold(IF dg = Unit THEN F(1) ELSE F(0), aa, ld, i,
            ScanRowJ(upl, dg, nn, kk, i))

RECURSIVE MaxRowSumFold(_, _, _, _, _, _, _, _)
MaxRowSumFold(v, upl, dg, nn, kk, aa, ld, i) ==
    IF i >= nn THEN v
    ELSE MaxRowSumFold(TakeLarger(v, RowSum(upl, dg, nn, kk, aa, ld, i)),
                       upl, dg, nn, kk, aa, ld, i + 1)

MaxRowSumValue(upl, dg, nn, kk, aa, ld) ==
    MaxRowSumFold(F(0), upl, dg, nn, kk, aa, ld, 0)

(***************************************************************************)
(* lapack.MaxColumnSum                                                     *)
(***************************************************************************)
MaxColumnSumCells(upl, dg, nn, kk) ==
    RowMajor(nn, [r \in 1..nn |-> ColumnRowJ(upl, dg, nn, kk, r - 1)])

\* The column of a cell taken to be its row.
ColByRowMut(upl, kk, c) == c[1]

\* work[i+j] for Upper, work[i+j-k] for Lower.
Col(upl, kk, c) == IF upl = Upper THEN c[1] + c[2] ELSE c[1] + c[2] - kk

\* for i := range work { work[i] = 1 } or { work[i] = 0 }, on work[:n].
WorkReset(dg, nn) == [c \in 1..nn |-> IF dg = Unit THEN F(1) ELSE F(0)]

\* The accumulation loop on w = work[:n]; it stops at the first access that
\* is out of range of a or of w.
RECURSIVE WorkFold(_, _, _, _, _, _)
WorkFold(w, upl, kk, aa, ld, cells) ==
    IF cells = <<>> THEN w
    ELSE LET c == Head(cells)
         IN  IF ~InRange(aa, Idx(c, ld)) \/ ~InRange(w, Col(upl, kk, c)) THEN w
             ELSE WorkFold([w EXCEPT ![Col(upl, kk, c) + 1] =
                                Add(@, Abs(At(aa, Idx(c, ld))))],
                           upl, kk, aa, ld, Tail(cells))

ColFaulted(upl, nn, kk, cells) ==
    \E x \in DOMAIN cells : Col(upl, kk, cells[x]) \notin 0..(nn - 1)

RECURSIVE MaxOfWork(_, _)
MaxOfWork(v, w) ==
    IF w = <<>> THEN v ELSE MaxOfWork(TakeLarger(v, Head(w)), Tail(w))

(***************************************************************************)
(* lapack.Frobenius.  The branch names the band kd, ab, ldab; they are the *)
(* k, a, lda of the other branches.  Dlassq and Dcombssq are methods of    *)
(* the same package defined in other files.                                *)
(***************************************************************************)
\* Dlassq(cnt, x, incx, scale, sumsq) on the elements at the given cells:
\* returns scl, smsq with scl^2*smsq = x[0]^2 + ... + scale^2*sumsq.
DlassqStep(st, x) ==
    LET absxi == Abs(x)
    IN  IF Gt(absxi, F(0)) \/ IsNaN(absxi)
        THEN IF Lt(st.scale, absxi)
             THEN [scale |-> absxi,
                   ssq |-> Add(F(1), Mul(st.ssq, Mul(Div(st.scale, absxi),
                                                     Div(st.scale, absxi))))]
             ELSE [scale |-> st.scale,
                   ssq |-> Add(st.ssq, Mul(Div(absxi, st.scale),
                                           Div(absxi, st.scale)))]
        ELSE st

RECURSIVE Dlassq(_, _, _, _)
Dlassq(st, aa, ld, cells) ==
    IF cells = <<>> THEN st
    ELSE Dlassq(DlassqStep(st, At(aa, Idx(Head(cells), ld))), aa, ld, Tail(cells))

\* Dcombssq(scale1, ssq1, scale2, ssq2)
Dcombssq(s1, s2) ==
    IF Ge(s1.scale, s2.scale)
    THEN IF s1.scale # F(0)
         THEN [scale |-> s1.scale,
               ssq |-> Add(s1.ssq, Mul(Mul(Div(s2.scale, s1.scale),
                                           Div(s2.scale, s1.scale)), s2.ssq))]
         ELSE s1
    ELSE [scale |-> s2.scale,
          ssq |-> Add(s2.ssq, Mul(Mul(Div(s1.scale, s2.scale),
                                      Div(s1.scale, s2.scale)), s1.ssq))]

\* scale := 0.0; ssq := 1.0, and the 0, 1 handed to every Dlassq call.
SsqZero == [scale |-> F(0), ssq |-> F(1)]

\* The off-diagonal elements handed to Dlassq for row i:
\* Upper: ilen = min(n-i-1, kd) elements from ab[i*ldab+1], stride 1;
\* Lower: ilen = min(i, kd) elements from ab[i*ldab+kd-ilen], stride 1.
FrobRowJ(upl, nn, kk, i) ==
    IF upl = Upper THEN JSeq(1, 1 + min(nn - i - 1, kk))
    ELSE JSeq(kk - min(i, kk), kk)

\* The rows of the off-diagonal loop: i in 0..n-2 (Upper), 1..n-1 (Lower).
FrobRows(upl, nn) == IF upl = Upper THEN JSeq(0, nn - 1) ELSE JSeq(1, nn)

FrobRowCells(upl, nn, kk, i) ==
    LET js == FrobRowJ(upl, nn, kk, i) IN [x \in DOMAIN js |-> <<i, js[x]>>]

\* The diagonal: n elements from ab[0] (Upper) or ab[kd] (Lower), stride ldab.
FrobDiagCells(upl, nn, kk) ==
    [r \in 1..nn |-> <<r - 1, IF upl = Upper THEN 0 ELSE kk>>]

FrobOffCells(upl, nn, kk) ==
    IF kk > 0
    THEN LET rows == FrobRows(upl, nn)
         IN  Flatten([x \in DOMAIN rows |-> FrobRowCells(upl, nn, kk, rows[x])])
    ELSE <<>>

FrobeniusCells(upl, nn, kk) ==
    FrobOffCells(upl, nn, kk) \o FrobDiagCells(upl, nn, kk)

RECURSIVE FrobOffFold(_, _, _, _, _, _, _)
FrobOffFold(st, upl, nn, kk, aa, ld, rows) ==
    IF rows = <<>> THEN st
    ELSE FrobOffFold(
             Dcombssq(st, Dlassq(SsqZero, aa, ld,
                                 FrobRowCells(upl, nn, kk, Head(rows)))),
             upl, nn, kk, aa, ld, Tail(rows))

\* ssq *= 2 after the off-diagonal loop.
OffDiagonalWeight(st) == [st EXCEPT !.ssq = Mul(@, F(2))]

FrobeniusSsq(upl, nn, kk, aa, ld) ==
    LET off == IF kk > 0
               THEN OffDiagonalWeight(
                        FrobOffFold(SsqZero, upl, nn, kk, aa, ld, FrobRows(upl, nn)))
               ELSE SsqZero
    IN  Dcombssq(off, Dlassq(SsqZero, aa, ld, FrobDiagCells(upl, nn, kk)))

\* value = scale * math.Sqrt(ssq)
FrobeniusValue(upl, nn, kk, aa, ld) ==
    LET t == FrobeniusSsq(upl, nn, kk, aa, ld) IN MulSqrt(t.scale, t.ssq)

(***************************************************************************)
(* The band as documented: row i of an Upper band holds the diagonal at    *)
(* j = 0 and the superdiagonals after it, cut at the last column; row i of *)
(* a Lower band holds the diagonal at j = k and the subdiagonals before    *)
(* it, cut at the first column.  The remaining slots of a row are padding. *)
(***************************************************************************)
InBand(upl, nn, kk, i, j) ==
    /\ i \in 0..(nn - 1)
    /\ IF upl = Upper THEN 0 <= j /\ j <= min(kk, nn - 1 - i)
       ELSE upl = Lower /\ max(0, kk - i) <= j /\ j <= kk

IsDiag(upl, kk, j) == IF upl = Upper THEN j = 0 ELSE j = kk

BandSlots(upl, nn, kk) ==
    {c \in (0..(nn - 1)) \X (0..kk) : InBand(upl, nn, kk, c[1], c[2])}

\* The column of the matrix that band slot <<i, j>> holds.
ColumnOf(upl, kk, c) == IF upl = Upper THEN c[1] + c[2] ELSE c[1] + c[2] - kk

Required(nn, kk, ld) == (nn - 1) * ld + kk + 1

(***************************************************************************)
(* Call arguments tried.  Slots outside the band hold NaN, so that reading *)
(* one shows in the result.  A band is either the ramp 2, 3, 4, ... of its *)
(* flat indices, or 0 with at most MaxSpecial entries set to -2 or NaN.    *)
(***************************************************************************)
Norms == {MaxAbs, MaxRowSum, MaxColumnSum, Frobenius}

Uplos == {Upper, Lower}

SpecialValues == {F(-2), NaN}

SlotOf(ld, idx) == IF ld > 0 THEN <<idx \div ld, idx % ld>> ELSE <<0, idx>>

Ramp(upl, nn, kk, ld, alen) ==
    [x \in 1..alen |->
        LET c == SlotOf(ld, x - 1)
        IN  IF c[2] <= kk /\ InBand(upl, nn, kk, c[1], c[2]) THEN F(x + 1) ELSE NaN]

Sparse(upl, nn, kk, ld, alen) ==
    LET slots == BandSlots(upl, nn, kk)
        picks == {S \in SUBSET slots : Cardinality(S) <= MaxSpecial}
    IN  UNION {
          {[x \in 1..alen |->
               LET c == SlotOf(ld, x - 1)
               IN  IF c \in S THEN f[c]
                   ELSE IF c \in slots THEN F(0) ELSE NaN] :
             f \in [S -> SpecialValues]} : S \in picks}

WellFormed(nrm, upl, nn, kk, ld) ==
    nrm \in Norms /\ upl \in Uplos /\ nn >= 1 /\ kk >= 0 /\ ld >= kk + 1

Bands(nrm, upl, nn, kk, ld, alen) ==
    IF WellFormed(nrm, upl, nn, kk, ld) /\ alen = Required(nn, kk, ld)
    THEN Sparse(upl, nn, kk, ld, alen) \cup {Ramp(upl, nn, kk, ld, alen)}
    ELSE {Ramp(upl, nn, kk, ld, alen)}

ALens(nn, kk, ld) ==
    LET r == Required(nn, kk, ld) IN {x \in {r - 1, r, r + 1} : x >= 0} \cup {0}

IsRamp(aa) == \E x \in DOMAIN aa : ~aa[x].nan /\ aa[x].num > 2

WorkFills == {NaN, F(5)}

Works(nn, aa) ==
    IF IsRamp(aa) \/ nn <= 0
    THEN {[x \in 1..len |-> w] : len \in {x \in {nn - 1, nn, nn + 1} : x >= 0},
                                 w \in WorkFills}
    ELSE {[x \in 1..(nn + 1) |-> NaN]}

Init ==
    \E nrm \in Norms \cup {Other}, upl \in Uplos \cup {Other}, dg \in {Unit, NonUnit},
       nn \in (-1)..MaxN, kk \in (-1)..MaxK :
      \E ld \in kk..(kk + 2) :
        \E alen \in ALens(nn, kk, ld) :
          \E aa \in Bands(nrm, upl, nn, kk, ld, alen) :
            \E wk \in Works(nn, aa) :
              /\ norm = nrm /\ uplo = upl /\ diag = dg
              /\ n = nn /\ k = kk /\ lda = ld
              /\ a = aa /\ work = wk
              /\ pc = "entry" /\ value = F(0) /\ err = NoPanic
              /\ reads = {} /\ writes = {}

(***************************************************************************)
(* The paths through Dlantb.                                               *)
(***************************************************************************)
\* The first switch panics.
PanicArgs ==
    /\ pc = "entry"
    /\ ArgPanic(norm, uplo, n, k, lda) # NoPanic
    /\ pc' = "panicked"
    /\ err' = ArgPanic(norm, uplo, n, k, lda)
    /\ UNCHANGED <<args, work, value, reads, writes>>

\* Quick return if possible.
QuickReturn ==
    /\ pc = "entry"
    /\ ArgPanic(norm, uplo, n, k, lda) = NoPanic
    /\ IsQuickReturn(n)
    /\ pc' = "returned"
    /\ value' = F(0)
    /\ UNCHANGED <<args, work, err, reads, writes>>

\* The second switch panics.
PanicLengths ==
    /\ pc = "entry"
    /\ ArgPanic(norm, uplo, n, k, lda) = NoPanic
    /\ ~IsQuickReturn(n)
    /\ LenPanic(norm, n, k, a, lda, work) # NoPanic
    /\ pc' = "panicked"
    /\ err' = LenPanic(norm, n, k, a, lda, work)
    /\ UNCHANGED <<args, work, value, reads, writes>>

\* Both switches and the quick return are passed.
Checked ==
    /\ pc = "entry"
    /\ ArgPanic(norm, uplo, n, k, lda) = NoPanic
    /\ ~IsQuickReturn(n)
    /\ LenPanic(norm, n, k, a, lda, work) = NoPanic

\* A branch that only reads a: it returns v unless an access faults.
ReadOnlyBranch(cells, v) ==
    /\ reads' = CellSet(Attempted(a, lda, cells))
    /\ IF Faulted(a, lda, cells)
       THEN pc' = "panicked" /\ err' = IndexOutOfRange /\ UNCHANGED value
       ELSE pc' = "returned" /\ value' = v /\ UNCHANGED err
    /\ UNCHANGED <<args, work, writes>>

NormMaxAbs ==
    /\ Checked
    /\ norm = MaxAbs
    /\ ReadOnlyBranch(MaxAbsCells(uplo, diag, n, k),
                      MaxAbsValue(uplo, diag, n, k, a, lda))

NormMaxRowSum ==
    /\ Checked
    /\ norm = MaxRowSum
    /\ ReadOnlyBranch(MaxRowSumCells(uplo, diag, n, k),
                      MaxRowSumValue(uplo, diag, n, k, a, lda))

NormMaxColumnSum ==
    /\ Checked
    /\ norm = MaxColumnSum
    /\ LET cells == MaxColumnSumCells(uplo, diag, n, k)
           tried == Attempted(a, lda, cells)
           w     == WorkFold(WorkReset(diag, n), uplo, k, a, lda, cells)
       IN  /\ reads' = CellSet(tried)
           /\ writes' = (0..(n - 1)) \cup
                        {Col(uplo, k, tried[x]) : x \in DOMAIN tried}
           /\ work' = w \o SubSeq(work, n + 1, Len(work))
           /\ IF Faulted(a, lda, cells) \/ ColFaulted(uplo, n, k, cells)
              THEN pc' = "panicked" /\ err' = IndexOutOfRange /\ UNCHANGED value
              ELSE pc' = "returned" /\ value' = MaxOfWork(F(0), w) /\ UNCHANGED err
    /\ UNCHANGED args

NormFrobenius ==
    /\ Checked
    /\ norm = Frobenius
    /\ ReadOnlyBranch(FrobeniusCells(uplo, n, k),
                      FrobeniusValue(uplo, n, k, a, lda))

Next ==
    \/ PanicArgs
    \/ QuickReturn
    \/ PanicLengths
    \/ NormMaxAbs
    \/ NormMaxRowSum
    \/ NormMaxColumnSum
    \/ NormFrobenius

Spec == Init /\ [][Next]_vars

(***************************************************************************)
(* The norms as defined on the matrix the band represents, independent of  *)
(* the order and the loops in which Dlantb computes them.                  *)
(***************************************************************************)
Entry(c) == At(a, Idx(c, lda))

Slots == BandSlots(uplo, n, k)

DiagSlots == {c \in Slots : IsDiag(uplo, k, c[2])}

OffDiagSlots == Slots \ DiagSlots

\* The slots whose stored value is part of the matrix.
StoredSlots == IF diag = Unit THEN OffDiagSlots ELSE Slots

RECURSIVE SumAbs(_)
SumAbs(S) ==
    IF S = {} THEN F(0)
    ELSE LET c == CHOOSE x \in S : TRUE
         IN  Add(Abs(Entry(c)), SumAbs(S \ {c}))

RECURSIVE SumSquares(_)
SumSquares(S) ==
    IF S = {} THEN F(0)
    ELSE LET c == CHOOSE x \in S : TRUE
         IN  Add(Mul(Entry(c), Entry(c)), SumSquares(S \ {c}))

\* The largest element of a non-empty set of values, NaN if NaN is in it.
Largest(S) ==
    IF \E x \in S : IsNaN(x) THEN NaN
    ELSE CHOOSE m \in S : \A y \in S : Ge(m, y)

\* 1 for the implicit diagonal entry of the unit convention.
ImplicitDiag == IF diag = Unit THEN F(1) ELSE F(0)

RowTotal(i) == Add(ImplicitDiag, SumAbs({c \in StoredSlots : c[1] = i}))

ColTotal(j) ==
    Add(ImplicitDiag, SumAbs({c \in StoredSlots : ColumnOf(uplo, k, c) = j}))

Finite(S) == \A c \in S : ~IsNaN(Entry(c))

Returned == pc = "returned"

Panicked == pc = "panicked"

(***************************************************************************)
(* C1.  Frobenius norm, explicit diagonal, both orientations: the square   *)
(* of the result is the sum of the squares of the stored in-band entries,  *)
(* each counted exactly once.                                              *)
(***************************************************************************)
C1_FrobeniusCountsEachEntryOnce ==
    (Returned /\ norm = Frobenius /\ diag = NonUnit /\ n >= 1 /\ Finite(Slots))
        => value.sqrtOf = SumSquares(Slots)

(***************************************************************************)
(* C2.  Unit diagonal with every off-diagonal band entry 0: MaxAbs,        *)
(* MaxRowSum and MaxColumnSum are 1 and the square of the Frobenius result *)
(* is n, whatever the diagonal slots hold.                                 *)
(***************************************************************************)
C2_UnitDiagonalOfZeroBand ==
    (/\ Returned /\ diag = Unit /\ n >= 1
     /\ \A c \in OffDiagSlots : Entry(c) = F(0))
        => IF norm = Frobenius THEN value.sqrtOf = F(n) ELSE value = F(1)

(***************************************************************************)
(* C3.  MaxColumnSum, explicit diagonal: the result is the largest, over   *)
(* the columns c of the matrix, of the sum of the absolute values of the   *)
(* in-band entries of column c, and NaN when any column sum is NaN.        *)
(***************************************************************************)
C3_MaxColumnSumExplicit ==
    (Returned /\ norm = MaxColumnSum /\ diag = NonUnit /\ n >= 1)
        => value = Largest({ColTotal(c) : c \in 0..(n - 1)})

C3_Witness ==
    /\ Returned /\ norm = MaxColumnSum /\ diag = NonUnit /\ uplo = Upper
    /\ n = 3 /\ k = 1 /\ lda = 2
    /\ Entry(<<0, 0>>) = F(2) /\ Entry(<<0, 1>>) = F(3)
    /\ Entry(<<1, 0>>) = F(4) /\ Entry(<<1, 1>>) = F(5)
    /\ Entry(<<2, 0>>) = F(6)
    /\ value = F(11)

(***************************************************************************)
(* C4.  MaxColumnSum, unit diagonal: the result is the largest, over the   *)
(* columns c, of 1 plus the sum of the absolute values of the off-diagonal *)
(* in-band entries of column c; the diagonal slots contribute nothing.     *)
(***************************************************************************)
C4_MaxColumnSumUnit ==
    (Returned /\ norm = MaxColumnSum /\ diag = Unit /\ n >= 1)
        => /\ value = Largest({ColTotal(c) : c \in 0..(n - 1)})
           /\ reads \cap DiagSlots = {}

(***************************************************************************)
(* C5.  MaxRowSum: the result is the largest, over the rows i, of the sum  *)
(* of the absolute values of the in-band entries of row i, the diagonal    *)
(* term being 1 and its slot not read under the unit convention; NaN when  *)
(* any row sum is NaN.                                                     *)
(***************************************************************************)
C5_MaxRowSum ==
    (Returned /\ norm = MaxRowSum /\ n >= 1)
        => /\ value = Largest({RowTotal(i) : i \in 0..(n - 1)})
           /\ diag = Unit => reads \cap DiagSlots = {}

C5_Witness ==
    /\ Returned /\ norm = MaxRowSum /\ diag = NonUnit /\ uplo = Upper
    /\ n = 3 /\ k = 1 /\ lda = 2
    /\ Entry(<<0, 0>>) = F(2) /\ Entry(<<0, 1>>) = F(3)
    /\ Entry(<<1, 0>>) = F(4) /\ Entry(<<1, 1>>) = F(5)
    /\ Entry(<<2, 0>>) = F(6)
    /\ value = F(9)

(***************************************************************************)
(* C6.  MaxAbs: the result is NaN exactly when a scanned entry is NaN,     *)
(* wherever it is in the scan; otherwise it is >= 0 and is the largest     *)
(* absolute value of the scanned entries, together with 1 under the unit   *)
(* convention.  The scanned entries are the in-band ones, without the      *)
(* diagonal slots under the unit convention.                               *)
(***************************************************************************)
C6_MaxAbs ==
    (Returned /\ norm = MaxAbs /\ n >= 1)
        => /\ IsNaN(value) <=> ~Finite(StoredSlots)
           /\ ~IsNaN(value) =>
                /\ Ge(value, F(0))
                /\ value = Largest({Abs(Entry(c)) : c \in StoredSlots}
                                   \cup {ImplicitDiag})

\* A NaN in the first scanned slot, followed by larger finite entries.
C6_Witness ==
    /\ Returned /\ norm = MaxAbs /\ diag = NonUnit /\ uplo = Upper
    /\ n = 3 /\ k = 1
    /\ IsNaN(Entry(<<0, 0>>))
    /\ Entry(<<2, 0>>) = F(-2)
    /\ IsNaN(value)

(***************************************************************************)
(* C7.  n = 0 with a recognised norm and orientation, k >= 0 and           *)
(* lda >= k+1: the call returns 0, reads no element of the band, writes no *)
(* element of the scratch and does not panic, whatever the lengths of the  *)
(* two slices.                                                             *)
(***************************************************************************)
C7_DegenerateSize ==
    (n = 0 /\ norm \in Norms /\ uplo \in Uplos /\ k >= 0 /\ lda >= k + 1)
        => IF pc = "entry" THEN ENABLED QuickReturn
           ELSE /\ Returned /\ value = F(0) /\ err = NoPanic
                /\ reads = {} /\ writes = {}

C7_Witness ==
    /\ Returned /\ n = 0 /\ norm = MaxColumnSum /\ diag = Unit
    /\ a = <<>> /\ work = <<>> /\ value = F(0)

(***************************************************************************)
(* C8.  A call panics exactly when a precondition is violated; the message *)
(* is that of the first violated one in the order norm kind, orientation,  *)
(* n, k, row stride, band length, scratch length; nothing has been read    *)
(* from the band or written to the scratch when it panics.                 *)
(***************************************************************************)
Preconditions ==
    << [ok |-> norm \in Norms,                              msg |-> "badNorm"],
       [ok |-> uplo \in Uplos,                              msg |-> "badUplo"],
       [ok |-> n >= 0,                                      msg |-> "nLT0"],
       [ok |-> k >= 0,                                      msg |-> "kdLT0"],
       [ok |-> lda >= k + 1,                                msg |-> "badLdA"],
       [ok |-> Len(a) >= (n - 1) * lda + k + 1,             msg |-> "shortAB"],
       [ok |-> ~(norm = MaxColumnSum /\ Len(work) < n),     msg |-> "shortWork"] >>

Violated == {x \in DOMAIN Preconditions : ~Preconditions[x].ok}

FirstViolated == CHOOSE x \in Violated : \A y \in Violated : x <= y

C8_Validation ==
    pc # "entry"
        => /\ Panicked <=> Violated # {}
           /\ Panicked =>
                /\ err = Preconditions[FirstViolated].msg
                /\ reads = {} /\ writes = {}

\* Two preconditions violated at once, and the band too short as well.
C8_Witness ==
    /\ Panicked /\ n = -1 /\ lda = k /\ norm \in Norms /\ uplo \in Uplos
    /\ k >= 0 /\ err = "nLT0"

(***************************************************************************)
(* C9.  A returning call leaves the band as it was; MaxAbs, MaxRowSum and  *)
(* Frobenius leave the scratch as it was; MaxColumnSum with n >= 1         *)
(* overwrites each of scratch[0..n-1] with the total of its column,        *)
(* whatever the scratch held at entry, returns the largest of them, and    *)
(* leaves the scratch elements from index n on as they were.               *)
(***************************************************************************)
C9_SideEffects ==
    [][ pc' = "returned" =>
          /\ a' = a
          /\ norm # MaxColumnSum => work' = work
          /\ (norm = MaxColumnSum /\ n >= 1) =>
               /\ Len(work') = Len(work)
               /\ \A c \in 0..(n - 1) :
                    c \in writes' /\ At(work', c) = ColTotal(c)
               /\ \A x \in n..(Len(work) - 1) : At(work', x) = At(work, x)
               /\ value' = Largest({ColTotal(c) : c \in 0..(n - 1)})
      ]_vars

(***************************************************************************)
(* C10.  For arguments that pass the checks with n >= 1, every index       *)
(* i*lda+j read from the band is within 0..(n-1)*lda+k, hence within the   *)
(* slice, and is a slot of the band of row i, never padding nor a slot cut *)
(* at the matrix boundary; every scratch index of the MaxColumnSum branch  *)
(* is within 0..n-1; no access faults.                                     *)
(***************************************************************************)
C10_IndexSafety ==
    /\ \A c \in reads :
         /\ 0 <= Idx(c, lda) /\ Idx(c, lda) <= (n - 1) * lda + k
         /\ Idx(c, lda) < Len(a)
         /\ InBand(uplo, n, k, c[1], c[2])
    /\ writes \subseteq 0..(n - 1)
    /\ err # IndexOutOfRange
    /\ (pc # "entry" /\ Violated = {} /\ n >= 1) => Returned

\* A Lower band with padding and rows cut at the first column, all read.
C10_Witness ==
    /\ Returned /\ norm = Frobenius /\ uplo = Lower
    /\ n = 3 /\ k = 2 /\ lda = 4
    /\ reads = Slots /\ Cardinality(reads) = 6

====
